---- MODULE Spec2Model ----
(***************************************************************************)
(* Model of models/transform.py: the moving-stroke video mask generator    *)
(* (get_video_masks_by_moving_random_stroke and its helpers), the lattice  *)
(* random-walk mask, the masked-ratio utility and get_random_velocity.     *)
(*                                                                         *)
(* Numbers.  Python floats are modelled as fixed-point integers counting   *)
(* 1/Scale of a pixel (coordinates, speeds).  Angles count quarter turns   *)
(* (pi/2), so that cos and sin are exact.  Array indices are 1-based.      *)
(* Every call of the random generator is an existential choice over the    *)
(* grid points of the distribution's support.                              *)
(***************************************************************************)
EXTENDS Integers, Sequences, FiniteSets, TLC

VARIABLES
  pc,                 \* position in get_video_masks_by_moving_random_stroke
  video_len,          \* argument video_len
  nStroke,            \* argument nStroke
  nMovePointRatio,    \* argument nMovePointRatio, a fraction <<num, den>>
  mask,               \* the canvas being drawn: the sequence of draw calls on it
  control_points_set, \* list of (Xs, Ys, velocity, brushWidth)
  masks,              \* the list of finished canvases
  frame,              \* iterations of the frame loop completed
  j,                  \* index of the stroke being moved in the current frame
  gen,                \* locals of get_random_stroke_control_points
  mv,                 \* locals of random_move_control_points
  result,             \* what the call returned or raised
  nDraws,             \* history: number of random values consumed
  nCanvas,            \* history: number of canvases created by Image.new
  nMoves,             \* history: number of random_move_control_points calls
  nVertexOf,          \* history: numVertex drawn for each stroke
  velSource,          \* history: how each stroke's velocity was last set
  walk,               \* locals and result of get_random_walk_mask
  ratio,              \* argument and result of get_masked_ratio
  vel                 \* argument and result of get_random_velocity

vars == <<pc, video_len, nStroke, nMovePointRatio, mask, control_points_set,
          masks, frame, j, gen, mv, result, nDraws, nCanvas, nMoves, nVertexOf,
          velSource, walk, ratio, vel>>

videoVars == <<pc, video_len, nStroke, nMovePointRatio, mask,
               control_points_set, masks, frame, j, gen, mv, result, nDraws,
               nCanvas, nMoves, nVertexOf, velSource>>

(***************************************************************************)
(* Bounds of the model and the arguments the calls are made with.          *)
(***************************************************************************)
Scale == 4
MaxInvalidLen == 2
MaxVideoLen == 3
MaxStroke == 1
NormalBound == 1
MaxWalkDim == 2
MaxWalkLen == 2
MaxRatioDim == 3
MaxSpeedArg == 8
imageWidth == 3
imageHeight == 2
boarderGap == 1
maxHeadSpeed == 1
maxPiontMove == 1
maxInitSpeed == 1
nVertexBound == <<0, 2>>
maxHeadAcceleration == <<Scale, 1>>
brushWidthBound == <<4, 5>>
maxLineAcceleration == <<Scale, 2>>
Ratios == {<<1, 2>>, <<1, 1>>}

(***************************************************************************)
(* numpy and Python primitives.                                            *)
(***************************************************************************)
Cos(a) == CASE a % 4 = 0 -> 1 [] a % 4 = 1 -> 0 [] a % 4 = 2 -> -1 [] OTHER -> 0

Sin(a) == CASE a % 4 = 0 -> 0 [] a % 4 = 1 -> 1 [] a % 4 = 2 -> 0 [] OTHER -> -1

Abs(v) == IF v < 0 THEN -v ELSE v

\* int(v) of a float: truncation toward zero, in whole pixels.
IntTrunc(v) == IF v >= 0 THEN v \div Scale ELSE -((-v) \div Scale)

\* np.clip(v, lo, hi) = minimum(maximum(v, lo), hi)
Clip(v, lo, hi) ==
  LET m == IF v < lo THEN lo ELSE v
  IN  IF m > hi THEN hi ELSE m

\* np.random.uniform(low, high) = low + (high - low) * u, u in [0, 1)
Uniform(low, high) ==
  IF low = high THEN {low}
  ELSE IF low < high THEN low .. (high - 1)
  ELSE (high + 1) .. low

\* np.random.randint(low, high): an integer of [low, high)
RandInt(low, high) == low .. (high - 1)

\* np.random.normal(0, sigma), sigma = sigma2 / 2: the grid points nearest
\* below the multiples of sigma, up to NormalBound of them on either side
\* (the support is unbounded).
Normal(sigma2) ==
  {(n * sigma2) \div 2 : n \in 0 .. NormalBound}
    \cup {-((n * sigma2) \div 2) : n \in 0 .. NormalBound}

\* np.random.uniform(0, 2 * np.pi), in quarter turns
UniformAngle == 0 .. 3

(***************************************************************************)
(* Velocity model.  A velocity is [speed, angle].                          *)
(***************************************************************************)
\* The pairs (d_speed draw, d_angle draw) random_accelerate can add.
AccelDraws(maxAcceleration, dist) ==
  IF dist = "uniform"
    THEN Uniform(-maxAcceleration[1], maxAcceleration[1])
           \X Uniform(-maxAcceleration[2], maxAcceleration[2])
  ELSE IF dist = "guassian"
    THEN Normal(maxAcceleration[1]) \X Normal(maxAcceleration[2])
  ELSE {}

random_accelerate(velocity, draw) ==
  [speed |-> velocity.speed + draw[1], angle |-> velocity.angle + draw[2]]

\* The raw draws get_random_velocity can make for the speed;
\* np.random.uniform(max_speed) binds max_speed to the parameter low, and
\* high keeps its default 1.0.
SpeedDraws(max_speed, dist) ==
  IF dist = "uniform" THEN Uniform(max_speed, Scale)
  ELSE IF dist = "guassian" THEN Normal(max_speed)
  ELSE {}

\* Variant: the gaussian speed is taken without np.abs.
get_random_velocity_no_abs(dist, raw, angle) ==
  [speed |-> raw, angle |-> angle]

get_random_velocity(dist, raw, angle) ==
  [speed |-> IF dist = "guassian" THEN Abs(raw) ELSE raw, angle |-> angle]

(***************************************************************************)
(* get_random_stroke_control_points, one step per loop iteration.          *)
(***************************************************************************)
GenIdle ==
  [state |-> "idle", brushWidth |-> 0, startX |-> 0, startY |-> 0,
   Xs |-> <<>>, Ys |-> <<>>, numVertex |-> 0, i |-> 0, speed |-> 0,
   angle |-> 0]

\* Variant: the vertex loop runs once more, range(numVertex + 1).
GenLoopDoneOffByOne(g) == g.i > g.numVertex

\* for i in range(numVertex): the loop has run to its end
GenLoopDone(g) == g.i >= g.numVertex

\* One iteration of the vertex loop, with the acceleration drawn.
GenStep(g, draw) ==
  LET v     == random_accelerate([speed |-> g.speed, angle |-> g.angle], draw)
      speed == Clip(v.speed, 0, maxHeadSpeed * Scale)
      nextX == Clip(g.startX + speed * Sin(v.angle),
                    boarderGap * Scale, (imageWidth - boarderGap) * Scale)
      nextY == Clip(g.startY + speed * Cos(v.angle),
                    boarderGap * Scale, (imageHeight - boarderGap) * Scale)
  IN  [g EXCEPT !.speed = speed, !.angle = v.angle,
                !.startX = nextX, !.startY = nextY,
                !.Xs = Append(@, nextX), !.Ys = Append(@, nextY),
                !.i = @ + 1]

\* draw_mask_by_control_points: Len(Xs) - 1 line segments of the given width
\* and a disc of radius brushWidth // 2 - 1 on each point.  A canvas is the
\* sequence of the draw calls made on it; the pixels are PIL's.
draw_mask_by_control_points(m, Xs, Ys, brushWidth) ==
  Append(m, [lines |-> Len(Xs) - 1, discs |-> Len(Ys), width |-> brushWidth,
             radius |-> (brushWidth \div 2) - 1])

(***************************************************************************)
(* random_move_control_points, one step per loop iteration.  Xs, Ys are    *)
(* the argument arrays, new_Xs, new_Ys the arrays worked on; copied says   *)
(* whether they are distinct objects.  Xs0, Ys0, velocity0, accel, jit and *)
(* sampled are history: the arguments at the call, the acceleration drawn, *)
(* the jittered coordinates before clipping, the velocity resampled; and   *)
(* stroke is the index of the stroke the call was made for.                *)
(***************************************************************************)
NoVelocity == [speed |-> 0, angle |-> 0]

MvIdle ==
  [state |-> "idle", Xs |-> <<>>, Ys |-> <<>>, new_Xs |-> <<>>,
   new_Ys |-> <<>>, copied |-> TRUE, lineVelocity |-> NoVelocity,
   new_velocity |-> FALSE, chosen |-> <<>>, k |-> 1,
   Xs0 |-> <<>>, Ys0 |-> <<>>, velocity0 |-> NoVelocity, accel |-> <<0, 0>>,
   jit |-> <<>>, sampled |-> <<>>, stroke |-> 0]

\* Xs.copy()
ArrayCopy(a) == [arr |-> a, copied |-> TRUE]

\* new_Xs += d, on every element
AddAll(a, d) == [i \in 1 .. Len(a) |-> a[i] + d]

\* All orders np.random.shuffle can leave np.arange(n) in.
Shuffles(n) ==
  {p \in [1 .. n -> 1 .. n] : \A a, b \in 1 .. n : p[a] = p[b] => a = b}

\* Variant: the number of chosen points is rounded up.
NumChosenCeil(n, r) == (n * r[1] + r[2] - 1) \div r[2]

\* int(len(Xs) * nMovePointRatio)
NumChosen(n, r) == (n * r[1]) \div r[2]

\* chosen[:k]
Take(p, k) == [i \in 1 .. (IF k < Len(p) THEN k ELSE Len(p)) |-> p[i]]

\* Variant: the escape test counts the canvas border as outside.
EscapedAtBorder(x, y) ==
  \/ x >= imageWidth * Scale
  \/ x <= 0
  \/ y >= imageHeight * Scale
  \/ y <= 0

\* The escape test of line 195 on the jittered coordinates.
Escaped(x, y) ==
  \/ x > imageWidth * Scale
  \/ x < 0
  \/ y > imageHeight * Scale
  \/ y < 0

\* Lines 178-191: copy, move the whole line, accelerate, choose the points.
MoveEnter(Xs, Ys, lineVelocity, r, draw, perm, s) ==
  LET cx == ArrayCopy(Xs)
      cy == ArrayCopy(Ys)
      dx == IntTrunc(lineVelocity.speed * Cos(lineVelocity.angle)) * Scale
      dy == IntTrunc(lineVelocity.speed * Sin(lineVelocity.angle)) * Scale
      copied == cx.copied /\ cy.copied
  IN  [state |-> "loop",
       Xs |-> IF copied THEN Xs ELSE AddAll(Xs, dx),
       Ys |-> IF copied THEN Ys ELSE AddAll(Ys, dy),
       new_Xs |-> AddAll(cx.arr, dx), new_Ys |-> AddAll(cy.arr, dy),
       copied |-> copied,
       lineVelocity |-> random_accelerate(lineVelocity, draw),
       new_velocity |-> FALSE,
       chosen |-> Take(perm, NumChosen(Len(Xs), r)), k |-> 1,
       Xs0 |-> Xs, Ys0 |-> Ys, velocity0 |-> lineVelocity, accel |-> draw,
       jit |-> <<>>, sampled |-> <<>>, stroke |-> s]

\* Lines 193-198: one iteration of the loop over the chosen points.
MoveStep(m, jx, jy) ==
  LET i  == m.chosen[m.k]
      x  == m.new_Xs[i] + jx * Scale
      y  == m.new_Ys[i] + jy * Scale
      cx == Clip(x, boarderGap * Scale, (imageWidth - boarderGap) * Scale)
      cy == Clip(y, boarderGap * Scale, (imageHeight - boarderGap) * Scale)
  IN  [m EXCEPT !.new_Xs[i] = cx, !.new_Ys[i] = cy,
                !.Xs = IF m.copied THEN @ ELSE [@ EXCEPT ![i] = cx],
                !.Ys = IF m.copied THEN @ ELSE [@ EXCEPT ![i] = cy],
                !.new_velocity = IF ~m.new_velocity /\ Escaped(x, y)
                                   THEN TRUE ELSE @,
                !.jit = Append(@, <<x, y>>),
                !.k = @ + 1]

(***************************************************************************)
(* get_video_masks_by_moving_random_stroke.                                *)
(***************************************************************************)
\* Variant: the assertion admits video_len = 0.
AssertOkFromZero(v) == v >= 0

\* assert(video_len >= 1)
AssertOk(v) == v >= 1

\* Variant: the frame loop runs video_len times.
FrameCountOffByOne(v) == v

\* for _ in range(video_len - 1)
FrameCount(v) == v - 1

Stroke(Xs, Ys, velocity, brushWidth) ==
  [Xs |-> Xs, Ys |-> Ys, velocity |-> velocity, brushWidth |-> brushWidth]

othersIdle == UNCHANGED <<walk, ratio, vel>>

NoResult == [kind |-> "none", error |-> "", value |-> <<>>]

Raise(e) == [kind |-> "raise", error |-> e, value |-> <<>>]

Returned(v) == [kind |-> "return", error |-> "", value |-> v]

Call(v, n, r) ==
  /\ pc = "idle"
  /\ video_len' = v
  /\ nStroke' = n
  /\ nMovePointRatio' = r
  /\ IF AssertOk(v)
       THEN /\ pc' = "init"
            /\ mask' = <<>>
            /\ nCanvas' = nCanvas + 1
            /\ control_points_set' = <<>>
            /\ result' = result
       ELSE /\ pc' = "error"
            /\ result' = Raise("AssertionError")
            /\ UNCHANGED <<mask, nCanvas, control_points_set>>
  /\ UNCHANGED <<masks, frame, j, gen, mv, nDraws, nMoves, nVertexOf, velSource>>
  /\ othersIdle

GenStart ==
  /\ pc = "init"
  /\ gen.state = "idle"
  /\ Len(control_points_set) < nStroke
  /\ \E bw \in RandInt(brushWidthBound[1], brushWidthBound[2]),
        sx \in RandInt(0, imageWidth), sy \in RandInt(0, imageHeight),
        nv \in RandInt(nVertexBound[1], nVertexBound[2]),
        a \in UniformAngle, s \in Uniform(0, maxHeadSpeed * Scale) :
       gen' = [state |-> "loop", brushWidth |-> bw,
               startX |-> sx * Scale, startY |-> sy * Scale,
               Xs |-> <<sx * Scale>>, Ys |-> <<sy * Scale>>,
               numVertex |-> nv, i |-> 0, speed |-> s, angle |-> a]
  /\ nDraws' = nDraws + 6
  /\ UNCHANGED <<pc, video_len, nStroke, nMovePointRatio, mask,
                 control_points_set, masks, frame, j, mv, result, nCanvas,
                 nMoves, nVertexOf, velSource>>
  /\ othersIdle

GenVertex ==
  /\ pc = "init"
  /\ gen.state = "loop"
  /\ ~GenLoopDone(gen)
  /\ \E draw \in AccelDraws(maxHeadAcceleration, "uniform") :
       gen' = GenStep(gen, draw)
  /\ nDraws' = nDraws + 2
  /\ UNCHANGED <<pc, video_len, nStroke, nMovePointRatio, mask,
                 control_points_set, masks, frame, j, mv, result, nCanvas,
                 nMoves, nVertexOf, velSource>>
  /\ othersIdle

GenReturn ==
  /\ pc = "init"
  /\ gen.state = "loop"
  /\ GenLoopDone(gen)
  /\ \E raw \in SpeedDraws(maxInitSpeed * Scale, "guassian"),
        a \in UniformAngle :
       control_points_set' =
         Append(control_points_set,
                Stroke(gen.Xs, gen.Ys,
                       get_random_velocity("guassian", raw, a),
                       gen.brushWidth))
  /\ mask' = draw_mask_by_control_points(mask, gen.Xs, gen.Ys, gen.brushWidth)
  /\ nVertexOf' = Append(nVertexOf, gen.numVertex)
  /\ velSource' = Append(velSource, "created")
  /\ gen' = GenIdle
  /\ nDraws' = nDraws + 2
  /\ UNCHANGED <<pc, video_len, nStroke, nMovePointRatio, masks, frame, j, mv,
                 result, nCanvas, nMoves>>
  /\ othersIdle

InitDone ==
  /\ pc = "init"
  /\ gen.state = "idle"
  /\ Len(control_points_set) >= nStroke
  /\ masks' = <<mask>>
  /\ frame' = 0
  /\ pc' = "loop"
  /\ UNCHANGED <<video_len, nStroke, nMovePointRatio, mask,
                 control_points_set, j, gen, mv, result, nDraws, nCanvas,
                 nMoves, nVertexOf, velSource>>
  /\ othersIdle

FrameBegin ==
  /\ pc = "loop"
  /\ frame < FrameCount(video_len)
  /\ mask' = <<>>
  /\ nCanvas' = nCanvas + 1
  /\ j' = 1
  /\ pc' = "move"
  /\ UNCHANGED <<video_len, nStroke, nMovePointRatio, control_points_set,
                 masks, frame, gen, mv, result, nDraws, nMoves, nVertexOf, velSource>>
  /\ othersIdle

MoveBegin ==
  /\ pc = "move"
  /\ mv.state # "loop"
  /\ j <= Len(control_points_set)
  /\ LET st == control_points_set[j]
     IN  \E draw \in AccelDraws(maxLineAcceleration, "guassian"),
            perm \in Shuffles(Len(st.Xs)) :
           mv' = MoveEnter(st.Xs, st.Ys, st.velocity, nMovePointRatio, draw,
                           perm, j)
  /\ control_points_set' =
       [control_points_set EXCEPT ![j].Xs = mv'.Xs, ![j].Ys = mv'.Ys]
  /\ nMoves' = nMoves + 1
  /\ nDraws' = nDraws + 2 + Len(control_points_set[j].Xs)
  /\ UNCHANGED <<pc, video_len, nStroke, nMovePointRatio, mask, masks, frame,
                 j, gen, result, nCanvas, nVertexOf, velSource>>
  /\ othersIdle

MovePoint ==
  /\ pc = "move"
  /\ mv.state = "loop"
  /\ mv.k <= Len(mv.chosen)
  /\ \E jx \in RandInt(-maxPiontMove, maxPiontMove),
        jy \in RandInt(-maxPiontMove, maxPiontMove) :
       mv' = MoveStep(mv, jx, jy)
  /\ control_points_set' =
       [control_points_set EXCEPT ![j].Xs = mv'.Xs, ![j].Ys = mv'.Ys]
  /\ nDraws' = nDraws + 2
  /\ UNCHANGED <<pc, video_len, nStroke, nMovePointRatio, mask, masks, frame,
                 j, gen, result, nCanvas, nMoves, nVertexOf, velSource>>
  /\ othersIdle

MoveReturn ==
  /\ pc = "move"
  /\ mv.state = "loop"
  /\ mv.k > Len(mv.chosen)
  /\ IF mv.new_velocity
       THEN \E raw \in SpeedDraws(maxInitSpeed * Scale, "guassian"),
               a \in UniformAngle :
              /\ mv' = [mv EXCEPT !.state = "returned",
                          !.lineVelocity =
                            get_random_velocity("guassian", raw, a),
                          !.sampled = <<raw, a>>]
              /\ nDraws' = nDraws + 2
       ELSE /\ mv' = [mv EXCEPT !.state = "returned"]
            /\ nDraws' = nDraws
  /\ control_points_set' =
       [control_points_set EXCEPT
          ![j] = Stroke(mv.new_Xs, mv.new_Ys, mv'.lineVelocity, @.brushWidth)]
  /\ j' = j + 1
  /\ velSource' = [velSource EXCEPT
                      ![j] = IF mv.new_velocity THEN "reset" ELSE "perturbed"]
  /\ UNCHANGED <<pc, video_len, nStroke, nMovePointRatio, mask, masks, frame,
                 gen, result, nCanvas, nMoves, nVertexOf>>
  /\ othersIdle

RECURSIVE DrawAll(_, _, _)
\* for Xs, Ys, velocity, brushWidth in control_points_set: draw
DrawAll(m, cps, i) ==
  IF i > Len(cps) THEN m
  ELSE DrawAll(draw_mask_by_control_points(m, cps[i].Xs, cps[i].Ys,
                                           cps[i].brushWidth),
               cps, i + 1)

FrameEnd ==
  /\ pc = "move"
  /\ mv.state # "loop"
  /\ j > Len(control_points_set)
  /\ mask' = DrawAll(mask, control_points_set, 1)
  /\ masks' = Append(masks, mask')
  /\ frame' = frame + 1
  /\ pc' = "loop"
  /\ UNCHANGED <<video_len, nStroke, nMovePointRatio, control_points_set, j,
                 gen, mv, result, nDraws, nCanvas, nMoves, nVertexOf, velSource>>
  /\ othersIdle

Return ==
  /\ pc = "loop"
  /\ frame >= FrameCount(video_len)
  /\ result' = Returned(masks)
  /\ pc' = "done"
  /\ UNCHANGED <<video_len, nStroke, nMovePointRatio, mask,
                 control_points_set, masks, frame, j, gen, mv, nDraws, nCanvas,
                 nMoves, nVertexOf, velSource>>
  /\ othersIdle

(***************************************************************************)
(* get_random_walk_mask, one step per loop iteration.  Cells are           *)
(* <<row, column>>, rows 0 .. imageHeight - 1, columns 0 .. imageWidth - 1. *)
(***************************************************************************)
WalkIdle ==
  [state |-> "idle", imageWidth |-> 0, imageHeight |-> 0, length |-> 0,
   x |-> 0, y |-> 0, x_list |-> <<>>, y_list |-> <<>>, i |-> 0,
   out |-> NoResult]

action_list == <<<<0, 1>>, <<0, -1>>, <<1, 0>>, <<-1, 0>>>>

\* np.zeros((imageHeight, imageWidth))
Zeros(h, w) == [c \in (0 .. h - 1) \X (0 .. w - 1) |-> 0]

\* The dtype np.array gives a list: float64 for the empty list, the integer
\* type of the elements otherwise.
ArrayDtype(list) == IF Len(list) = 0 THEN "float64" ELSE "int64"

\* canvas[xs, ys] = 1 followed by Image.fromarray(canvas * 255).convert('1'):
\* numpy refuses index arrays that are not of integer or boolean type.
IndexAssign(canvas, xs, ys) ==
  IF ArrayDtype(xs) # "int64" \/ ArrayDtype(ys) # "int64"
    THEN Raise("IndexError")
    ELSE Returned([c \in DOMAIN canvas |->
                    IF \E k \in 1 .. Len(xs) : c = <<xs[k], ys[k]>>
                      THEN 255 ELSE 255 * canvas[c]])

WalkCall(w, h, given, len) ==
  /\ walk.state = "idle"
  /\ \E x \in 0 .. h - 1, y \in 0 .. w - 1 :
       walk' = [state |-> "loop", imageWidth |-> w, imageHeight |-> h,
                length |-> IF given THEN len ELSE w * h,
                x |-> x, y |-> y, x_list |-> <<>>, y_list |-> <<>>, i |-> 0,
                out |-> NoResult]
  /\ UNCHANGED <<videoVars, ratio, vel>>

WalkStep ==
  /\ walk.state = "loop"
  /\ walk.i < walk.length
  /\ \E r \in 1 .. Len(action_list) :
       LET x == Clip(walk.x + action_list[r][1], 0, walk.imageHeight - 1)
           y == Clip(walk.y + action_list[r][2], 0, walk.imageWidth - 1)
       IN  walk' = [walk EXCEPT !.x = x, !.y = y,
                                !.x_list = Append(@, x),
                                !.y_list = Append(@, y),
                                !.i = @ + 1]
  /\ UNCHANGED <<videoVars, ratio, vel>>

WalkFinish ==
  /\ walk.state = "loop"
  /\ walk.i >= walk.length
  /\ walk' = [walk EXCEPT
                !.state = "returned",
                !.out = IndexAssign(Zeros(walk.imageHeight, walk.imageWidth),
                                    walk.x_list, walk.y_list)]
  /\ UNCHANGED <<videoVars, ratio, vel>>

NextWalk ==
  \/ \E w \in 1 .. MaxWalkDim, h \in 1 .. MaxWalkDim, given \in BOOLEAN,
        len \in 0 .. MaxWalkLen :
       /\ given \/ len = 0
       /\ WalkCall(w, h, given, len)
  \/ WalkStep
  \/ WalkFinish

(***************************************************************************)
(* get_masked_ratio.  A binary PIL image of mode '1' holds 0 and 255; the  *)
(* ratio is kept as the fraction <<numerator, denominator>>.               *)
(***************************************************************************)
RatioIdle ==
  [state |-> "idle", width |-> 0, height |-> 0, mask |-> <<>>,
   out |-> <<0, 1>>]

\* mask.histogram()[v]
Histogram(m, v) == Cardinality({c \in DOMAIN m : m[c] = v})

\* Variant: the ratio counts the filled pixels, hist[255].
get_masked_ratio_filled(m, w, h) == <<Histogram(m, 255), w * h>>

\* hist[0] / np.prod(mask.size)
get_masked_ratio(m, w, h) == <<Histogram(m, 0), w * h>>

RatioCall ==
  /\ ratio.state = "idle"
  /\ \E w \in 1 .. MaxRatioDim, h \in 1 .. MaxRatioDim :
       \E m \in [(0 .. h - 1) \X (0 .. w - 1) -> {0, 255}] :
         ratio' = [state |-> "returned", width |-> w, height |-> h,
                   mask |-> m, out |-> get_masked_ratio(m, w, h)]
  /\ UNCHANGED <<videoVars, walk, vel>>

NextRatio == RatioCall

(***************************************************************************)
(* get_random_velocity called on its own, with either distribution.        *)
(***************************************************************************)
VelIdle ==
  [state |-> "idle", max_speed |-> 0, dist |-> "", out |-> NoVelocity,
   error |-> ""]

Dists == {"uniform", "guassian", "normal"}

VelCall(max_speed, dist) ==
  /\ vel.state = "idle"
  /\ IF dist \in {"uniform", "guassian"}
       THEN \E raw \in SpeedDraws(max_speed, dist), a \in UniformAngle :
              vel' = [state |-> "returned", max_speed |-> max_speed,
                      dist |-> dist,
                      out |-> get_random_velocity(dist, raw, a),
                      error |-> ""]
       ELSE vel' = [state |-> "raised", max_speed |-> max_speed,
                    dist |-> dist, out |-> NoVelocity,
                    error |-> "NotImplementedError"]
  /\ UNCHANGED <<videoVars, walk, ratio>>

NextVel == \E ms \in 1 .. MaxSpeedArg, d \in Dists : VelCall(ms, d)

Init ==
  /\ pc = "idle"
  /\ video_len = 0
  /\ nStroke = 0
  /\ nMovePointRatio = <<0, 1>>
  /\ mask = <<>>
  /\ control_points_set = <<>>
  /\ masks = <<>>
  /\ frame = 0
  /\ j = 0
  /\ gen = GenIdle
  /\ mv = MvIdle
  /\ result = NoResult
  /\ nDraws = 0
  /\ nCanvas = 0
  /\ nMoves = 0
  /\ nVertexOf = <<>>
  /\ velSource = <<>>
  /\ walk = WalkIdle
  /\ ratio = RatioIdle
  /\ vel = VelIdle

Next ==
  \/ \E v \in (1 - MaxInvalidLen) .. MaxVideoLen, n \in 0 .. MaxStroke,
        r \in Ratios : Call(v, n, r)
  \/ GenStart
  \/ GenVertex
  \/ GenReturn
  \/ InitDone
  \/ FrameBegin
  \/ MoveBegin
  \/ MovePoint
  \/ MoveReturn
  \/ FrameEnd
  \/ Return

Spec == Init /\ [][Next]_vars

SpecWalk == Init /\ [][NextWalk]_vars

SpecRatio == Init /\ [][NextRatio]_vars

SpecVel == Init /\ [][NextVel]_vars

(***************************************************************************)
(* Properties.                                                             *)
(***************************************************************************)
InsideGap(x, y) ==
  /\ boarderGap * Scale <= x
  /\ x <= (imageWidth - boarderGap) * Scale
  /\ boarderGap * Scale <= y
  /\ y <= (imageHeight - boarderGap) * Scale

\* d is v truncated toward zero to whole pixels.
IsTruncOf(d, v) ==
  /\ d % Scale = 0
  /\ Abs(d) <= Abs(v)
  /\ Abs(v) - Abs(d) < Scale
  /\ (d > 0 => v > 0)
  /\ (d < 0 => v < 0)

InSeq(e, q) == \E k \in 1 .. Len(q) : q[k] = e

\* C1: a call with video_len >= 1 returns a list of exactly video_len masks;
\* with video_len = 1 the list has one mask and no animation step was made.
C1_LengthIsVideoLen ==
  pc = "done" =>
    /\ video_len >= 1
    /\ result.kind = "return"
    /\ Len(result.value) = video_len
    /\ (video_len = 1 => nMoves = 0 /\ frame = 0 /\ nCanvas = 1)

C1_Witness ==
  /\ pc = "done"
  /\ video_len > 1
  /\ nStroke > 0
  /\ nMoves = (video_len - 1) * nStroke

\* C2: after every call of random_move_control_points every control point
\* of every stroke, selected or not and the start point included, lies in
\* [boarderGap, imageWidth - boarderGap] x [boarderGap, imageHeight - boarderGap].
C2_AllPointsInsideGap ==
  mv.state = "returned" =>
    \A s \in 1 .. Len(control_points_set) :
      \A i \in 1 .. Len(control_points_set[s].Xs) :
        InsideGap(control_points_set[s].Xs[i], control_points_set[s].Ys[i])

\* C3 as stated: the whole-line speed of every stroke is >= 0 in every
\* state, after creation and after every call of random_move_control_points.
C3_SpeedNeverNegative ==
  \A s \in 1 .. Len(control_points_set) :
    control_points_set[s].velocity.speed >= 0

\* C3 amended: the whole-line speed is >= 0 after creation and after a call
\* of random_move_control_points that reset it following an escape; a speed
\* that was only perturbed is the input speed plus the unclamped draw.
C3_SpeedNonNegativeUnlessPerturbed ==
  /\ \A s \in 1 .. Len(control_points_set) :
       velSource[s] # "perturbed" =>
         control_points_set[s].velocity.speed >= 0
  /\ mv.state = "returned" /\ ~mv.new_velocity =>
       mv.lineVelocity.speed = mv.velocity0.speed + mv.accel[1]

C3_Witness ==
  /\ mv.state = "returned"
  /\ mv.new_velocity
  /\ mv.sampled # <<>>
  /\ mv.sampled[1] < 0
  /\ velSource[mv.stroke] = "reset"
  /\ control_points_set[mv.stroke].velocity.speed > 0

\* C4: a stroke has numVertex + 1 control points, numVertex drawn once from
\* [nVertexBound[0], nVertexBound[1]), at creation and in every later frame;
\* random_move_control_points returns arrays as long as its inputs.
C4_VertexCountFixed ==
  /\ \A s \in 1 .. Len(control_points_set) :
       /\ nVertexOf[s] >= nVertexBound[1]
       /\ nVertexOf[s] < nVertexBound[2]
       /\ Len(control_points_set[s].Xs) = nVertexOf[s] + 1
       /\ Len(control_points_set[s].Ys) = nVertexOf[s] + 1
  /\ mv.state \in {"loop", "returned"} =>
       /\ Len(mv.new_Xs) = Len(mv.Xs0)
       /\ Len(mv.new_Ys) = Len(mv.Ys0)

C4_Witness ==
  /\ mv.state = "returned"
  /\ nMoves >= 2
  /\ Len(mv.chosen) >= 1
  /\ Len(control_points_set[1].Xs) = nVertexBound[2]

\* C5: a call with video_len < 1 is rejected with an error before any work:
\* no stroke, no canvas, no random draw, no sequence.
C5_RejectedBeforeWork ==
  pc # "idle" /\ video_len < 1 =>
    /\ pc = "error"
    /\ result = Raise("AssertionError")
    /\ control_points_set = <<>>
    /\ masks = <<>>
    /\ nCanvas = 0
    /\ nDraws = 0
    /\ nMoves = 0
    /\ gen = GenIdle

C5_Witness ==
  /\ pc = "error"
  /\ video_len = 0
  /\ nStroke > 0

\* C6: get_random_walk_mask with length = 0 takes no step and returns,
\* without error, a mask of the given size whose every cell is zero.
C6_ZeroLengthWalkIsZeroMask ==
  walk.state = "returned" /\ walk.length = 0 =>
    /\ walk.i = 0
    /\ walk.out.kind = "return"
    /\ DOMAIN walk.out.value =
         (0 .. walk.imageHeight - 1) \X (0 .. walk.imageWidth - 1)
    /\ \A c \in DOMAIN walk.out.value : walk.out.value[c] = 0

AllZero(m) == \A c \in DOMAIN m : m[c] = 0

AllFilled(m) == \A c \in DOMAIN m : m[c] # 0

\* C7 as stated: get_masked_ratio is in [0, 1], 0 for an all-zero canvas and
\* 1 for a fully filled canvas.
C7_ZeroCanvasGivesZero ==
  ratio.state = "returned" =>
    /\ 0 <= ratio.out[1]
    /\ ratio.out[1] <= ratio.out[2]
    /\ ratio.out[2] > 0
    /\ (AllZero(ratio.mask) => ratio.out[1] = 0)
    /\ (AllFilled(ratio.mask) => ratio.out[1] = ratio.out[2])

\* C7 amended: get_masked_ratio is in [0, 1], 1 for an all-zero canvas and
\* 0 for a fully filled canvas: it is the share of zero pixels.
C7_RatioIsShareOfZeroPixels ==
  ratio.state = "returned" =>
    /\ 0 <= ratio.out[1]
    /\ ratio.out[1] <= ratio.out[2]
    /\ ratio.out[2] > 0
    /\ (AllZero(ratio.mask) => ratio.out[1] = ratio.out[2])
    /\ (AllFilled(ratio.mask) => ratio.out[1] = 0)

C7_Witness ==
  /\ ratio.state = "returned"
  /\ ratio.width * ratio.height > 1
  /\ AllZero(ratio.mask)
  /\ ratio.out[1] = ratio.out[2]

\* C8: get_random_velocity with the uniform distribution returns a speed of
\* [0, max_speed] and an angle of [0, 2 pi).
C8_UniformSpeedWithinMax ==
  vel.state = "returned" /\ vel.dist = "uniform" =>
    /\ 0 <= vel.out.speed
    /\ vel.out.speed <= vel.max_speed
    /\ vel.out.angle \in 0 .. 3

\* C9: a call of random_move_control_points returns a freshly sampled
\* gaussian velocity exactly when some selected point's jittered, unclipped
\* coordinate lies outside the canvas; otherwise it returns the input
\* velocity plus the gaussian acceleration.
C9_ResetIffEscaped ==
  mv.state = "returned" =>
    LET esc == \E k \in 1 .. Len(mv.jit) :
                 \/ mv.jit[k][1] < 0
                 \/ mv.jit[k][1] > imageWidth * Scale
                 \/ mv.jit[k][2] < 0
                 \/ mv.jit[k][2] > imageHeight * Scale
        out == control_points_set[mv.stroke].velocity
    IN  /\ Len(mv.jit) = Len(mv.chosen)
        /\ out = mv.lineVelocity
        /\ esc =>
             /\ mv.sampled # <<>>
             /\ out.speed = Abs(mv.sampled[1])
             /\ out.angle = mv.sampled[2]
        /\ ~esc =>
             /\ mv.sampled = <<>>
             /\ out.speed = mv.velocity0.speed + mv.accel[1]
             /\ out.angle = mv.velocity0.angle + mv.accel[2]

C9_Witness ==
  /\ mv.state = "returned"
  /\ Len(mv.jit) = 2
  /\ mv.jit[1][1] >= 0
  /\ mv.jit[1][2] >= 0
  /\ mv.jit[1][1] <= imageWidth * Scale
  /\ mv.jit[1][2] <= imageHeight * Scale
  /\ mv.jit[2][1] < 0
  /\ mv.sampled # <<>>
  /\ mv.accel # <<0, 0>>

\* C10: a call of random_move_control_points selects exactly
\* floor(count * nMovePointRatio) distinct indices; every point not selected
\* ends at its input value plus the integer-truncated whole-line
\* displacement; the input arrays are left unchanged.
C10_UnselectedOnlyTranslated ==
  mv.state \in {"loop", "returned"} =>
    LET n  == Len(mv.Xs0)
        k  == Len(mv.chosen)
        dx == mv.velocity0.speed * Cos(mv.velocity0.angle)
        dy == mv.velocity0.speed * Sin(mv.velocity0.angle)
    IN  /\ k * nMovePointRatio[2] <= n * nMovePointRatio[1]
        /\ n * nMovePointRatio[1] < (k + 1) * nMovePointRatio[2]
        /\ \A a, b \in 1 .. k : mv.chosen[a] = mv.chosen[b] => a = b
        /\ \A a \in 1 .. k : mv.chosen[a] \in 1 .. n
        /\ \A i \in 1 .. n :
             ~InSeq(i, mv.chosen) =>
               /\ IsTruncOf(mv.new_Xs[i] - mv.Xs0[i], dx)
               /\ IsTruncOf(mv.new_Ys[i] - mv.Ys0[i], dy)
        /\ mv.Xs = mv.Xs0
        /\ mv.Ys = mv.Ys0
        /\ mv.state = "loop" =>
             /\ control_points_set[mv.stroke].Xs = mv.Xs0
             /\ control_points_set[mv.stroke].Ys = mv.Ys0

C10_Witness ==
  /\ mv.state = "returned"
  /\ Len(mv.Xs0) = 2
  /\ Len(mv.chosen) = 1
  /\ mv.velocity0.speed >= Scale
  /\ Cos(mv.velocity0.angle) # 0
  /\ \E i \in 1 .. 2 :
       /\ ~InSeq(i, mv.chosen)
       /\ mv.new_Xs[i] # mv.Xs0[i]
       /\ ~InsideGap(mv.new_Xs[i], mv.new_Ys[i])

====
